---- MODULE Spec2Model ----
(***************************************************************************)
(* SnowRisk / SnowCOF: the two snow-operation scoring scripts of the       *)
(* repository (src/SnowRisk.py, src/SnowCOF.py) as one state machine.      *)
(*                                                                         *)
(* A table of the geodatabase is a sequence of rows (records).  A field    *)
(* value is NULL (the empty tuple) or Val(v) (the one-element tuple <<v>>),*)
(* so that SQL's "a comparison with NULL selects nothing" is explicit.     *)
(*                                                                         *)
(* Units: SNOW_SLOPE is held in 1/10000 percent (1.999 is 19990) and AADT  *)
(* in tenths (750 is 7500), both fields being Double in the source; COF,   *)
(* COF_SAFETY, POF, RISK and RISK_SAFETY of SnowRisk are held in tenths    *)
(* (the scripts round to one decimal), COF and RISK of SnowRiskMinor in    *)
(* hundredths (round(..., 2)).  A three-character code that the scripts    *)
(* slice or match by prefix (SURF_TYP, SNOW_RT_NBR) is a tuple of digits.  *)
(***************************************************************************)
EXTENDS Integers, Sequences, FiniteSets, TLC

VARIABLES source, script, status, pc, runs, selection, tieOrder, nullsFirst,
          snow_risk, snow_risk_minor, snow_risk_minor_dissolved, snow_rank,
          roadway_information, roadway_information_temp, exists, lastGood

vars == <<source, script, status, pc, runs, selection, tieOrder, nullsFirst,
          snow_risk, snow_risk_minor, snow_risk_minor_dissolved, snow_rank,
          roadway_information, roadway_information_temp, exists, lastGood>>

(***************************************************************************)
(* Field values and SQL predicates                                         *)
(***************************************************************************)
NULL == <<>>

Val(v) == <<v>>

IsNull(x) == x = NULL

\* SQL comparisons: a comparison with NULL is unknown, and an unknown row
\* is not selected.
Eq(x, c) == x # NULL /\ x[1] = c

Ne(x, c) == x # NULL /\ x[1] # c

Le(x, c) == x # NULL /\ x[1] <= c

Lt(x, c) == x # NULL /\ x[1] < c

Ge(x, c) == x # NULL /\ x[1] >= c

Gt(x, c) == x # NULL /\ x[1] > c

In(x, S) == x # NULL /\ x[1] \in S

\* SURF_TYP LIKE 'd%': the code starts with the digit d.
LikePrefix(x, d) == x # NULL /\ Len(x[1]) >= 1 /\ x[1][1] = d

NORTE == "NORTE"

(***************************************************************************)
(* Rational arithmetic for the calculated-field expressions                *)
(***************************************************************************)
Rat(n, d) == <<n, d>>

RInt(n) == <<n, 1>>

RAdd(a, b) == <<a[1] * b[2] + b[1] * a[2], a[2] * b[2]>>

RMul(a, b) == <<a[1] * b[1], a[2] * b[2]>>

RDiv(a, b) == <<a[1] * b[2], a[2] * b[1]>>

RLess(a, b) == a[1] * b[2] < b[1] * a[2]

REq(a, b) == a[1] * b[2] = b[1] * a[2]

\* Python 3 round(x): to the nearest integer, a tie going to the even one.
\* x = a[1]/a[2] with a[1] >= 0 and a[2] > 0.
round(a) ==
    LET q == a[1] \div a[2]
        r == a[1] % a[2]
    IN  IF 2 * r < a[2] THEN q
        ELSE IF 2 * r > a[2] THEN q + 1
        ELSE IF q % 2 = 0 THEN q ELSE q + 1

\* A wrapped rational against a rational constant (SINUOSITY is Double).
RatLe(x, c) == x # NULL /\ ~RLess(c, x[1])

RatGt(x, c) == x # NULL /\ RLess(c, x[1])

(***************************************************************************)
(* Rule tables of SnowRisk.py: each is the list of [where clause, score]   *)
(* pairs of the source, the where clause evaluated on row r.               *)
(***************************************************************************)
routes(r) ==
    << <<Eq(r.SNOW_FID, NORTE), 0>>,
       <<Ne(r.SNOW_FID, NORTE) /\ (Eq(r.SMTD_DAY, "0") \/ Eq(r.SMTD_NIGHT, "0")), 1>>,
       <<Ne(r.SNOW_FID, NORTE) /\ (Eq(r.SMTD_DAY, "1") \/ Eq(r.SMTD_NIGHT, "1")), 3>>,
       <<Ne(r.SNOW_FID, NORTE) /\ (Eq(r.SMTD_DAY, "2") \/ Eq(r.SMTD_NIGHT, "2")), 4>> >>

classifications(r) ==
    << <<Eq(r.SNOW_FID, NORTE), 0>>,
       <<Ne(r.SNOW_FID, NORTE) /\ Eq(r.FC, "7"), 1>>,
       <<Ne(r.SNOW_FID, NORTE) /\ Eq(r.FC, "6"), 2>>,
       <<Ne(r.SNOW_FID, NORTE) /\ Eq(r.FC, "5"), 3>>,
       <<Ne(r.SNOW_FID, NORTE) /\ (Eq(r.FC, "4") \/ Eq(r.FC, "3")), 4>> >>

\* SNOW_SLOPE in 1/10000 percent: 1.999 is 19990, 2 is 20000, ...
slopes(r) ==
    << <<Eq(r.SNOW_FID, NORTE), 0>>,
       <<Ne(r.SNOW_FID, NORTE) /\ Le(r.SNOW_SLOPE, 19990), 1>>,
       <<Ne(r.SNOW_FID, NORTE) /\ (Ge(r.SNOW_SLOPE, 20000) /\ Le(r.SNOW_SLOPE, 29990)), 2>>,
       <<Ne(r.SNOW_FID, NORTE) /\ (Ge(r.SNOW_SLOPE, 30000) /\ Le(r.SNOW_SLOPE, 39990)), 3>>,
       <<Ne(r.SNOW_FID, NORTE) /\ Ge(r.SNOW_SLOPE, 40000), 4>> >>

\* AADT in tenths: 750 is 7500, 751 is 7510, ...
averages(r) ==
    << <<Eq(r.SNOW_FID, NORTE), 0>>,
       <<Ne(r.SNOW_FID, NORTE) /\ (Ge(r.AADT, 0) /\ Le(r.AADT, 7500)), 1>>,
       <<Ne(r.SNOW_FID, NORTE) /\ (Ge(r.AADT, 7510) /\ Le(r.AADT, 14000)), 2>>,
       <<Ne(r.SNOW_FID, NORTE) /\ (Ge(r.AADT, 14010) /\ Le(r.AADT, 31000)), 3>>,
       <<Ne(r.SNOW_FID, NORTE) /\ Gt(r.AADT, 31000), 4>> >>

troubles(r) ==
    << <<Eq(r.SNOW_FID, NORTE), 0>>,
       <<Ne(r.SNOW_FID, NORTE) /\ In(r.SNOW_TRBL, {"12"}), 1>>,
       <<Ne(r.SNOW_FID, NORTE) /\ In(r.SNOW_TRBL, {"10", "11"}), 2>>,
       <<Ne(r.SNOW_FID, NORTE) /\ In(r.SNOW_TRBL, {"07", "13"}), 3>>,
       <<Ne(r.SNOW_FID, NORTE) /\ In(r.SNOW_TRBL, {"01", "02", "03", "04", "06"}), 4>> >>

crashes(r) ==
    << <<Eq(r.SNOW_FID, NORTE), 0>>,
       <<Ne(r.SNOW_FID, NORTE) /\ Eq(r.SNOW_CRASH, 0), 1>>,
       <<Ne(r.SNOW_FID, NORTE) /\ Eq(r.SNOW_CRASH, 1), 2>>,
       <<Ne(r.SNOW_FID, NORTE) /\ Eq(r.SNOW_CRASH, 2), 3>>,
       <<Ne(r.SNOW_FID, NORTE) /\ Ge(r.SNOW_CRASH, 3), 4>> >>

AsphaltCodes ==
    { <<5,0,1>>, <<5,1,0>>, <<5,2,0>>, <<5,2,5>>, <<5,3,0>>, <<5,4,0>>, <<5,5,0>>, <<5,6,0>>,
      <<6,0,0>>, <<6,1,0>>, <<6,1,5>>, <<6,2,0>>, <<6,2,5>>, <<6,3,0>>, <<6,4,0>>, <<6,5,0>> }

materials(r) ==
    << <<Eq(r.SNOW_FID, NORTE), 0>>,
       <<Ne(r.SNOW_FID, NORTE) /\ In(r.SURF_TYP, AsphaltCodes), 1>>,
       <<Ne(r.SNOW_FID, NORTE) /\ (Eq(r.SURF_TYP, <<3,0,0>>) \/ Eq(r.SURF_TYP, <<5,0,0>>)), 2>>,
       <<Ne(r.SNOW_FID, NORTE) /\ LikePrefix(r.SURF_TYP, 7), 3>>,
       <<Ne(r.SNOW_FID, NORTE) /\ LikePrefix(r.SURF_TYP, 8), 4>> >>

curves(r) ==
    << <<RatLe(r.SINUOSITY, Rat(102, 100)) /\ RatGt(r.SINUOSITY, Rat(98, 100)), 1>>,
       <<RatLe(r.SINUOSITY, Rat(105, 100)) /\ RatGt(r.SINUOSITY, Rat(102, 100)), 2>>,
       <<RatLe(r.SINUOSITY, Rat(11, 10)) /\ RatGt(r.SINUOSITY, Rat(105, 100)), 3>>,
       <<RatLe(r.SINUOSITY, RInt(29)) /\ RatGt(r.SINUOSITY, Rat(11, 10)), 4>> >>

lanes(r) ==
    << <<Le(r.LN_TOTAL, 2) \/ IsNull(r.LN_TOTAL), 1>>,
       <<Eq(r.LN_TOTAL, 3), 2>>,
       <<Eq(r.LN_TOTAL, 4), 3>>,
       <<Ge(r.LN_TOTAL, 5), 4>> >>

\* The travel-time layers Salt_5 .. Salt_20 and Fleet_5 .. Fleet_20: the
\* where clause is HAVE_THEIR_CENTER_IN the layer; r.inSalt and r.inFleet
\* are the travel times (minutes) whose polygon holds the row's centre.
salt_domes(r) ==
    << <<5 \in r.inSalt, 1>>, <<10 \in r.inSalt, 2>>,
       <<15 \in r.inSalt, 3>>, <<20 \in r.inSalt, 4>> >>

fleet_garages(r) ==
    << <<5 \in r.inFleet, 1>>, <<10 \in r.inFleet, 2>>,
       <<15 \in r.inFleet, 3>>, <<20 \in r.inFleet, 4>> >>

(***************************************************************************)
(* Rule tables of SnowCOF.py                                               *)
(***************************************************************************)
routesCOF(r) ==
    << <<Eq(r.SNOW_FID, NORTE) \/ (Eq(r.SMTD_DAY, "0") /\ Eq(r.SMTD_NIGHT, "0")), 0>>,
       <<Ne(r.SNOW_FID, NORTE) /\ ((Eq(r.SMTD_DAY, "0") /\ Eq(r.SMTD_NIGHT, "1"))
                                    \/ (Eq(r.SMTD_DAY, "1") \/ Eq(r.SMTD_NIGHT, "0"))), 2>>,
       <<Eq(r.SNOW_FID, NORTE) \/ (Eq(r.SMTD_DAY, "1") /\ Eq(r.SMTD_NIGHT, "1")), 3>>,
       <<Ne(r.SNOW_FID, NORTE) /\ Eq(r.SMTD_DAY, "2"), 4>> >>

classificationsCOF(r) == classifications(r)

slopesCOF(r) ==
    << <<Eq(r.SNOW_FID, NORTE), 0>>,
       <<Ne(r.SNOW_FID, NORTE) /\ Lt(r.SNOW_SLOPE, 19990), 1>>,
       <<Ne(r.SNOW_FID, NORTE) /\ (Ge(r.SNOW_SLOPE, 20000) /\ Le(r.SNOW_SLOPE, 29990)), 2>>,
       <<Ne(r.SNOW_FID, NORTE) /\ (Ge(r.SNOW_SLOPE, 30000) /\ Le(r.SNOW_SLOPE, 39990)), 3>>,
       <<Ne(r.SNOW_FID, NORTE) /\ Ge(r.SNOW_SLOPE, 40000), 4>> >>

averagesCOF(r) == averages(r)

troublesCOF(r) == troubles(r)

crashesCOF(r) ==
    << <<Eq(r.SNOW_FID, NORTE), 0>>,
       <<Ne(r.SNOW_FID, NORTE) /\ Eq(r.NUMB1, 1), 1>>,
       <<Ne(r.SNOW_FID, NORTE) /\ Eq(r.NUMB1, 2), 2>>,
       <<Ne(r.SNOW_FID, NORTE) /\ Eq(r.NUMB1, 3), 3>>,
       <<Ne(r.SNOW_FID, NORTE) /\ Eq(r.NUMB1, 4), 4>> >>

OtherSurfaceCodes ==
    { <<0,1,0>>, <<0,2,0>>, <<1,0,0>>, <<1,1,0>>, <<2,0,0>>, <<2,1,0>> }

materialsCOF(r) ==
    << <<Eq(r.SNOW_FID, NORTE), 0>>,
       <<Ne(r.SNOW_FID, NORTE) /\ In(r.SURF_TYP, OtherSurfaceCodes), 1>>,
       <<Ne(r.SNOW_FID, NORTE) /\ (Eq(r.SURF_TYP, <<3,0,0>>) \/ Eq(r.SURF_TYP, <<5,0,0>>)), 2>>,
       <<Ne(r.SNOW_FID, NORTE) /\ In(r.SURF_TYP, AsphaltCodes), 3>>,
       <<Ne(r.SNOW_FID, NORTE) /\ (LikePrefix(r.SURF_TYP, 7) \/ LikePrefix(r.SURF_TYP, 8)), 4>> >>

\* The rule table a name stands for, evaluated on row r.
RuleTable(name, r) ==
    CASE name = "routes" -> routes(r)
      [] name = "classifications" -> classifications(r)
      [] name = "slopes" -> slopes(r)
      [] name = "averages" -> averages(r)
      [] name = "troubles" -> troubles(r)
      [] name = "crashes" -> crashes(r)
      [] name = "materials" -> materials(r)
      [] name = "curves" -> curves(r)
      [] name = "lanes" -> lanes(r)
      [] name = "salt_domes" -> salt_domes(r)
      [] name = "fleet_garages" -> fleet_garages(r)
      [] name = "routesCOF" -> routesCOF(r)
      [] name = "classificationsCOF" -> classificationsCOF(r)
      [] name = "slopesCOF" -> slopesCOF(r)
      [] name = "averagesCOF" -> averagesCOF(r)
      [] name = "troublesCOF" -> troublesCOF(r)
      [] name = "crashesCOF" -> crashesCOF(r)
      [] name = "materialsCOF" -> materialsCOF(r)

(***************************************************************************)
(* The engine's tools on tables: selection and field calculation           *)
(***************************************************************************)
Rows(t) == DOMAIN t

\* A table given row by row, as the tuple of its rows.
Table(f) == SubSeq(f, 1, Len(f))

\* RiskProcessor's loop stopping at the first rule that selects the row.
CalculateFirstMatch(r, risk_type, name, field, i) ==
    LET tbl == RuleTable(name, r)
        hit == { j \in 1..Len(tbl) :
                   tbl[j][1] /\ (risk_type = "probability" => Ne(r.SNOW_FID, NORTE)) }
    IN  IF hit = {} THEN r
        ELSE [r EXCEPT ![field] = Val(tbl[CHOOSE j \in hit : \A h \in hit : j <= h][2])]

RECURSIVE CalculateRules(_, _, _, _, _)
\* The loop of RiskProcessor on one row: rule after rule, in table order,
\* select the rows satisfying the where clause and calculate the field on
\* the selection.  A "probability" rule selects by location and then keeps
\* the subset with SNOW_FID <> 'NORTE'.
CalculateRules(r, risk_type, name, field, i) ==
    IF i > Len(RuleTable(name, r)) THEN r
    ELSE LET rule == RuleTable(name, r)[i]
             selected == IF risk_type = "probability"
                         THEN rule[1] /\ Ne(r.SNOW_FID, NORTE)
                         ELSE rule[1]
         IN  CalculateRules(IF selected THEN [r EXCEPT ![field] = Val(rule[2])] ELSE r,
                            risk_type, name, field, i + 1)

RiskProcessor(t, risk_type, name, field) ==
    Table([k \in Rows(t) |-> CalculateRules(t[k], risk_type, name, field, 1)])

\* The selection the layer is left with: that of the last rule of the table.
LastSelection(t, risk_type, name) ==
    { k \in Rows(t) :
        LET tbl == RuleTable(name, t[k])
        IN  /\ tbl[Len(tbl)][1]
            /\ (risk_type = "probability" => Ne(t[k].SNOW_FID, NORTE)) }

\* CalculateField on the rows of sel: row k gets field = value[k].
Calculate(t, sel, field, value) ==
    Table([k \in Rows(t) |-> IF k \in sel THEN [t[k] EXCEPT ![field] = value[k]] ELSE t[k]])

\* A Python expression over fields: a null operand raises TypeError and the
\* engine writes null for that row.
AnyNull(r, fields) == \E f \in fields : r[f] = NULL

RECURSIVE Sum(_, _)
Sum(r, fields) ==
    IF fields = <<>> THEN 0 ELSE r[Head(fields)][1] + Sum(r, Tail(fields))

Fields(fs) == { fs[i] : i \in 1..Len(fs) }

(***************************************************************************)
(* SnowRisk.py: the calculated-field expressions                           *)
(***************************************************************************)
safety_factor == <<"COF_FC", "COF_SLOPE", "COF_AADT", "COF_TRBL", "COF_CRASH">>

social_factor ==
    <<"COF_SMTD", "COF_FC", "COF_SLOPE", "COF_AADT", "COF_TRBL", "COF_CRASH", "COF_SURF", "COF_SINE">>

\* (((safety)/20)*.75 + ((social)/32)*.25)*4
cof(r) ==
    RMul(RAdd(RMul(RDiv(RInt(Sum(r, safety_factor)), RInt(20)), Rat(75, 100)),
              RMul(RDiv(RInt(Sum(r, social_factor)), RInt(32)), Rat(25, 100))),
         RInt(4))

\* safety_factor_average is the text "!COF_FC!+...+!COF_CRASH!/5": the
\* division binds to COF_CRASH alone.
safety_factor_average(r) ==
    RAdd(RInt(r.COF_FC[1] + r.COF_SLOPE[1] + r.COF_AADT[1] + r.COF_TRBL[1]),
         RDiv(RInt(r.COF_CRASH[1]), RInt(5)))

\* ((safety_factor_average)/20)*4
cof_safety(r) == RMul(RDiv(safety_factor_average(r), RInt(20)), RInt(4))

\* (round(x*10))/10, held in tenths
Round1(x) == round(RMul(x, RInt(10)))

\* round(x, 2), held in hundredths
Round2(x) == round(RMul(x, RInt(100)))

COF_value(r) ==
    IF AnyNull(r, Fields(social_factor)) THEN NULL ELSE Val(Round1(cof(r)))

COF_SAFETY_value(r) ==
    IF AnyNull(r, Fields(safety_factor)) THEN NULL ELSE Val(Round1(cof_safety(r)))

mechanical_factor == <<"POF_SALT", "POF_FLEET">>

weather_factor == <<"POF_SALT", "POF_LANES">>

\* pof with the weather factor inverted:
\* (((mechanical)/8)*.50 + ((16 - weather)/8)*.50)*4
pof_falling(r) ==
    RMul(RAdd(RMul(RDiv(RInt(Sum(r, mechanical_factor)), RInt(8)), Rat(50, 100)),
              RMul(RDiv(RInt(16 - Sum(r, weather_factor)), RInt(8)), Rat(50, 100))),
         RInt(4))

\* (((mechanical)/8)*.50 + ((weather)/8)*.50)*4
pof(r) ==
    RMul(RAdd(RMul(RDiv(RInt(Sum(r, mechanical_factor)), RInt(8)), Rat(50, 100)),
              RMul(RDiv(RInt(Sum(r, weather_factor)), RInt(8)), Rat(50, 100))),
         RInt(4))

POF_value(r) ==
    IF AnyNull(r, {"POF_SALT", "POF_FLEET", "POF_LANES"}) THEN NULL ELSE Val(Round1(pof(r)))

\* (round((!COF!*!POF!)*10)/10): COF and POF are stored in tenths.
RISK_value(r, coffield) ==
    IF AnyNull(r, {coffield, "POF"}) THEN NULL
    ELSE Val(Round1(RMul(Rat(r[coffield][1], 10), Rat(r.POF[1], 10))))

\* !LNS!+!LN_SPC_NBR!
LN_TOTAL_value(r) ==
    IF AnyNull(r, {"LNS", "LN_SPC_NBR"}) THEN NULL ELSE Val(r.LNS[1] + r.LN_SPC_NBR[1])

safety_factor_minor == <<"COF_SLOPE", "COF_TRBL", "COF_CRASH">>

social_factor_minor ==
    <<"COF_SMTD", "COF_SLOPE", "COF_TRBL", "COF_CRASH", "COF_SURF", "COF_SINE">>

\* (((safety_minor)/12)*.75 + ((social_minor)/24)*.25)*4
cof_minor(r) ==
    RMul(RAdd(RMul(RDiv(RInt(Sum(r, safety_factor_minor)), RInt(12)), Rat(75, 100)),
              RMul(RDiv(RInt(Sum(r, social_factor_minor)), RInt(24)), Rat(25, 100))),
         RInt(4))

COF_minor_value(r) ==
    IF AnyNull(r, Fields(social_factor_minor)) THEN NULL ELSE Val(Round2(cof_minor(r)))

\* round((!COF!*!POF!), 2): COF of SnowRiskMinor in hundredths, POF in tenths.
RISK_minor_value(r) ==
    IF AnyNull(r, {"COF", "POF"}) THEN NULL
    ELSE Val(Round2(RMul(Rat(r.COF[1], 100), Rat(r.POF[1], 10))))

\* loop_distance: Shape.length over the sum of the two chords from the
\* first point to the 50% point and from the 50% point to the last point;
\* a zero divisor raises ZeroDivisionError and the engine writes null.
loop_distance(r) ==
    IF r.halfChord1 + r.halfChord2 = 0 THEN NULL
    ELSE Val(Rat(r.Shape_Length[1], r.halfChord1 + r.halfChord2))

(***************************************************************************)
(* Dissolve and the ranking cursor                                         *)
(***************************************************************************)
KeyOf(r, keys) == [i \in 1..Len(keys) |-> r[keys[i]]]

\* The dissolve fields of risk_rank.
RankKeys == <<"SNOW_DIST", "SNOW_TYPE", "ROAD_NAME", "SNOW_RT_NBR">>

\* The rows of sel with the dissolve key of row k.
Group(t, sel, keys, k) == { j \in sel : KeyOf(t[j], keys) = KeyOf(t[k], keys) }

RECURSIVE SumOver(_, _, _)
SumOver(t, S, field) ==
    IF S = {} THEN 0
    ELSE LET j == CHOOSE x \in S : TRUE
         IN  t[j][field][1] + SumOver(t, S \ {j}, field)

\* The MEAN statistic: over the non-null values, null when there is none.
Mean(t, S, field) ==
    LET nn == { j \in S : t[j][field] # NULL }
    IN  IF nn = {} THEN NULL ELSE Val(Rat(SumOver(t, nn, field), Cardinality(nn)))

RECURSIVE Ascending(_)
Ascending(S) ==
    IF S = {} THEN <<>>
    ELSE LET m == CHOOSE x \in S : \A y \in S : x <= y
         IN  <<m>> \o Ascending(S \ {m})

\* One output row for each distinct key, in the order of first occurrence.
Leaders(t, sel, keys) ==
    Ascending({ k \in sel : \A j \in sel : j < k => KeyOf(t[j], keys) # KeyOf(t[k], keys) })

\* ORDER BY MEAN_COF DESC: row j comes before row k.  The code leaves the
\* order of equal values and the place of nulls to the engine: tieOrder and
\* nullsFirst are the engine's (fixed) choice.
Before(t, j, k) ==
    LET a == t[j].MEAN_COF
        b == t[k].MEAN_COF
    IN  IF a = NULL /\ b = NULL THEN tieOrder[j] < tieOrder[k]
        ELSE IF a = NULL THEN nullsFirst
        ELSE IF b = NULL THEN ~nullsFirst
        ELSE \/ RLess(b[1], a[1])
             \/ REq(a[1], b[1]) /\ tieOrder[j] < tieOrder[k]

\* A ranking in which rows of equal MEAN_COF share a rank: one more than the
\* number of selected rows with a larger MEAN_COF.
rankingShared(t, sel, field) ==
    IF sel = {} THEN t
    ELSE Calculate(t, sel, field,
                   [k \in Rows(t) |->
                      Val(1 + Cardinality({ j \in sel : /\ j # k
                                                        /\ t[j].MEAN_COF # NULL
                                                        /\ t[k].MEAN_COF # NULL
                                                        /\ RLess(t[k].MEAN_COF[1], t[j].MEAN_COF[1]) }))])

\* ranking(table, field): the update cursor walks the selected rows in
\* ORDER BY order and writes 1, 2, 3, ... to the field; over an empty
\* selection it writes nothing.
ranking(t, sel, field) ==
    IF sel = {} THEN t
    ELSE Calculate(t, sel, field,
                   [k \in Rows(t) |-> Val(1 + Cardinality({ j \in sel : j # k /\ Before(t, j, k) }))])

districts == <<"D1", "D2", "D3", "D4", "D5", "D6", "CBD">>

subdistricts ==
    << <<1,0,1>>, <<1,0,2>>, <<2,0,1>>, <<2,0,2>>, <<3,0,1>>, <<3,0,2>>, <<4,0,1>>,
       <<4,0,2>>, <<5,0,1>>, <<6,0,1>>, <<6,0,2>>, <<7,0,1>>, <<7,0,2>> >>

\* The district loop of risk_rank, from district i on: RANK_DISTRICT over
\* the rows of the district, then RANK_ROUTE over the rows of each
\* subdistrict (SNOW_RT_NBR LIKE 'nnn', a pattern without wildcard).  Each
\* pass finishes its table (Len) before the loop goes on.
RECURSIVE RankRoutes(_, _)
RankRoutes(t, i) ==
    IF i > Len(subdistricts) THEN t
    ELSE LET selected_priorities == { k \in Rows(t) : Eq(t[k].SNOW_RT_NBR, subdistricts[i]) }
             ranked == ranking(t, selected_priorities, "RANK_ROUTE")
         IN  IF Len(ranked) = Len(t) THEN RankRoutes(ranked, i + 1) ELSE ranked

\* The district loop with the district's selection lost: RANK_DISTRICT over
\* every row.
RankDistrictsAll(t, i) == RankRoutes(ranking(t, Rows(t), "RANK_DISTRICT"), 1)

RECURSIVE RankDistricts(_, _)
RankDistricts(t, i) ==
    IF i > Len(districts) THEN t
    ELSE LET selected_districts == { k \in Rows(t) : Eq(t[k].SNOW_DIST, districts[i]) }
             ranked == RankRoutes(ranking(t, selected_districts, "RANK_DISTRICT"), 1)
         IN  IF Len(ranked) = Len(t) THEN RankDistricts(ranked, i + 1) ELSE ranked

\* !SNOW_RT_NBR![:3] into a Short field; a null raises TypeError.
SNOW_RT_SHORT_value(r) ==
    IF r.SNOW_RT_NBR = NULL THEN NULL
    ELSE LET d == r.SNOW_RT_NBR[1]
         IN  IF Len(d) >= 3 THEN Val(100 * d[1] + 10 * d[2] + d[3])
             ELSE IF Len(d) = 2 THEN Val(10 * d[1] + d[2])
             ELSE IF Len(d) = 1 THEN Val(d[1])
             ELSE NULL

\* route(field): <<number, letter>> stands for "District n Subgroup l";
\* field[2] on a shorter text raises IndexError.
route(r) ==
    IF r.SNOW_RT_NBR = NULL \/ Len(r.SNOW_RT_NBR[1]) < 3 THEN NULL
    ELSE LET d == r.SNOW_RT_NBR[1]
         IN  Val(<<d[1], IF d[3] = 1 THEN "A" ELSE IF d[3] = 2 THEN "B" ELSE "0">>)

(***************************************************************************)
(* The source table RoadwayInformation and the inputs of the model         *)
(***************************************************************************)
NumSegs == 2

MaxRuns == 2

\* A local street on a snow route: every rule table gives it score 1,
\* except the nested travel-time polygons.
Base ==
    [ ROAD_NAME |-> Val("MAIN"), FC |-> Val("7"), AADT |-> Val(5000),
      LNS |-> Val(2), LN_SPC_NBR |-> Val(0),
      SMTD_DAY |-> Val("0"), SMTD_NIGHT |-> Val("0"), NUMB1 |-> Val(0),
      SNOW_DIST |-> Val("D1"), SNOW_FID |-> Val("R1"), SNOW_RT_NBR |-> Val(<<1,0,1>>),
      SNOW_SLOPE |-> Val(10000), SNOW_TYPE |-> Val("1"), SNOW_TRBL |-> Val("12"),
      SURF_TYP |-> Val(<<5,0,1>>),
      Shape_Length |-> Val(100), halfChord1 |-> 50, halfChord2 |-> 50, endChord |-> 100,
      inSalt |-> {5, 10, 15, 20}, inFleet |-> {20} ]

\* An arterial with the highest score of every table of SnowRisk.
Arterial ==
    [ Base EXCEPT !.ROAD_NAME = Val("OAK"), !.FC = Val("3"), !.AADT = Val(31010),
                  !.LNS = Val(4), !.LN_SPC_NBR = Val(1),
                  !.SMTD_DAY = Val("2"), !.SMTD_NIGHT = Val("2"), !.NUMB1 = Val(4),
                  !.SNOW_SLOPE = Val(45000), !.SNOW_TRBL = Val("01"),
                  !.SURF_TYP = Val(<<8,1,0>>), !.SNOW_RT_NBR = Val(<<1,0,2>>),
                  !.Shape_Length = Val(150), !.halfChord1 = 60, !.halfChord2 = 60,
                  !.inFleet = {5, 10, 15, 20} ]

\* Not a snow route: the sentinel, on an otherwise ordinary segment.
Norte ==
    [ Base EXCEPT !.ROAD_NAME = Val("ELM"), !.SNOW_FID = Val(NORTE),
                  !.SMTD_DAY = Val("1"), !.SMTD_NIGHT = Val("1") ]

\* A second street with the scores of Base, in another district.
Twin == [ Base EXCEPT !.ROAD_NAME = Val("PINE"), !.SNOW_DIST = Val("D2") ]

\* A segment outside every snow district.
NoDistrict == [ Base EXCEPT !.ROAD_NAME = Val("LAKE"), !.SNOW_DIST = NULL ]

Pool == { Base, Arterial, Norte, Twin, NoDistrict }

Identity == [i \in 1..NumSegs |-> i]

Tables ==
    { "SnowRisk", "SnowRiskMinor", "SnowRiskMinor_dissolved", "SnowRank", "SnowCOF", "SnowCOF_temp" }

\* The outputs a run of the script persists.
Outputs ==
    IF script = "SnowRisk"
    THEN <<snow_risk, snow_risk_minor, snow_risk_minor_dissolved, snow_rank>>
    ELSE <<roadway_information>>

InitRest ==
    /\ script \in {"SnowRisk", "SnowCOF"}
    /\ status = "idle"
    /\ pc = "start"
    /\ runs = 0
    /\ selection = {}
    /\ snow_risk = <<>>
    /\ snow_risk_minor = <<>>
    /\ snow_risk_minor_dissolved = <<>>
    /\ snow_rank = <<>>
    /\ roadway_information = <<>>
    /\ roadway_information_temp = <<>>
    /\ exists = {}
    /\ lastGood = [valid |-> FALSE, out |-> <<>>]

\* The number of rows SnowRank gets from source s: one for each dissolve key
\* among the segments initialize keeps.
RankGroups(s) ==
    Cardinality({ KeyOf(s[k], RankKeys) : k \in { j \in 1..Len(s) : s[j].SNOW_DIST # NULL } })

\* The engine's order is any order of the rows of SnowRank; orders that
\* differ only on rows SnowRank does not have are one order.
Init ==
    /\ source \in [1..NumSegs -> Pool]
    /\ InitRest
    /\ tieOrder \in IF script = "SnowRisk"
                     THEN { o \in Permutations(1..NumSegs) :
                              \A i \in 1..NumSegs : i > RankGroups(source) => o[i] = i }
                     ELSE {Identity}
    /\ nullsFirst \in IF script = "SnowRisk" /\ RankGroups(source) >= 2 THEN BOOLEAN ELSE {FALSE}

(***************************************************************************)
(* SnowRisk.py, step by step                                               *)
(***************************************************************************)
\* A row of SnowRisk: the mapped fields of source row k and the added
\* fields, null.
RiskRow(k) ==
    LET s == source[k]
    IN  [ OID |-> k, ROAD_NAME |-> s.ROAD_NAME, FC |-> s.FC, AADT |-> s.AADT,
          LNS |-> s.LNS, LN_SPC_NBR |-> s.LN_SPC_NBR,
          SMTD_DAY |-> s.SMTD_DAY, SMTD_NIGHT |-> s.SMTD_NIGHT, SNOW_CRASH |-> s.NUMB1,
          SNOW_DIST |-> s.SNOW_DIST, SNOW_FID |-> s.SNOW_FID, SNOW_RT_NBR |-> s.SNOW_RT_NBR,
          SNOW_SLOPE |-> s.SNOW_SLOPE, SNOW_TYPE |-> s.SNOW_TYPE, SNOW_TRBL |-> s.SNOW_TRBL,
          SURF_TYP |-> s.SURF_TYP,
          Shape_Length |-> s.Shape_Length, halfChord1 |-> s.halfChord1,
          halfChord2 |-> s.halfChord2, endChord |-> s.endChord,
          inSalt |-> s.inSalt, inFleet |-> s.inFleet,
          LN_TOTAL |-> NULL, SINUOSITY |-> NULL, COF |-> NULL, COF_SAFETY |-> NULL,
          COF_AADT |-> NULL, COF_CRASH |-> NULL, COF_FC |-> NULL, COF_SINE |-> NULL,
          COF_SLOPE |-> NULL, COF_SMTD |-> NULL, COF_SURF |-> NULL, COF_TRBL |-> NULL,
          POF |-> NULL, POF_FLEET |-> NULL, POF_LANES |-> NULL, POF_SALT |-> NULL,
          RISK |-> NULL, RISK_SAFETY |-> NULL ]

\* The rows of a copy: the source rows of S, in source order.
Copy(S, row) == LET ord == Ascending(S) IN Table([i \in 1..Len(ord) |-> row[ord[i]]])

Running(step) == status = "running" /\ pc = step

Goto(step) == pc' = step /\ UNCHANGED <<source, script, status, runs, tieOrder, nullsFirst, lastGood>>

CofUnchanged == UNCHANGED <<roadway_information, roadway_information_temp>>

\* main(): the script is run (again).
Start ==
    /\ status \in {"idle", "done", "failed"}
    /\ runs < MaxRuns
    /\ status' = "running"
    /\ runs' = runs + 1
    /\ pc' = IF script = "SnowRisk" THEN "initialize" ELSE "load"
    /\ lastGood' = IF status = "done" THEN [valid |-> TRUE, out |-> Outputs] ELSE lastGood
    /\ UNCHANGED <<source, script, selection, tieOrder, nullsFirst, snow_risk, snow_risk_minor,
                   snow_risk_minor_dissolved, snow_rank, roadway_information,
                   roadway_information_temp, exists>>

\* An engine call raises (a lock, a missing layer, an abort): the except
\* clauses log it and the script ends; nothing is undone.
Fail ==
    /\ status = "running"
    /\ status' = "failed"
    /\ UNCHANGED <<source, script, pc, runs, selection, tieOrder, nullsFirst, snow_risk,
                   snow_risk_minor, snow_risk_minor_dissolved, snow_rank, roadway_information,
                   roadway_information_temp, exists, lastGood>>

initialize ==
    /\ Running("initialize")
    /\ snow_risk' = Copy({ k \in 1..Len(source) : source[k].SNOW_DIST # NULL },
                         [k \in 1..Len(source) |-> RiskRow(k)])
    /\ selection' = Rows(snow_risk')
    /\ exists' = exists \cup {"SnowRisk"}
    /\ Goto("routes")
    /\ UNCHANGED <<snow_risk_minor, snow_risk_minor_dissolved, snow_rank>>
    /\ CofUnchanged

\* RiskProcessor(risk_type, table, field, ...) on the layer SnowRisk.
Score(step, risk_type, name, field, next) ==
    /\ Running(step)
    /\ snow_risk' = RiskProcessor(snow_risk, risk_type, name, field)
    /\ selection' = LastSelection(snow_risk, risk_type, name)
    /\ Goto(next)
    /\ UNCHANGED <<snow_risk_minor, snow_risk_minor_dissolved, snow_rank, exists>>
    /\ CofUnchanged

BusRoutes == Score("routes", "consequence", "routes", "COF_SMTD", "classifications")

FunctionalClassifications ==
    Score("classifications", "consequence", "classifications", "COF_FC", "slopes")

Slopes == Score("slopes", "consequence", "slopes", "COF_SLOPE", "averages")

AADTAverages == Score("averages", "consequence", "averages", "COF_AADT", "troubles")

TroubleSpots == Score("troubles", "consequence", "troubles", "COF_TRBL", "crashes")

CrashData == Score("crashes", "consequence", "crashes", "COF_CRASH", "materials")

SurfaceMaterials == Score("materials", "consequence", "materials", "COF_SURF", "sinuosity")

sinuosity ==
    /\ Running("sinuosity")
    /\ LET selection_sinuosity == { k \in Rows(snow_risk) : Gt(snow_risk[k].Shape_Length, 0) }
           t1 == Calculate(snow_risk, selection_sinuosity, "SINUOSITY",
                           [k \in Rows(snow_risk) |-> loop_distance(snow_risk[k])])
           selection_nulls == { k \in Rows(t1) : t1[k].SINUOSITY = NULL
                                                  /\ Gt(t1[k].Shape_Length, 0) }
       IN  /\ snow_risk' = Calculate(t1, selection_nulls, "SINUOSITY",
                                     [k \in Rows(t1) |-> Val(RInt(30))])
           /\ selection' = selection_nulls
    /\ Goto("curves")
    /\ UNCHANGED <<snow_risk_minor, snow_risk_minor_dissolved, snow_rank, exists>>
    /\ CofUnchanged

Curves == Score("curves", "consequence", "curves", "COF_SINE", "total_cof_scores")

\* total_cof_scores without its selection: COF on the whole layer.
total_cof_scores_cleared ==
    /\ status = "running" /\ pc = "total_cof_scores"
    /\ LET sel == Rows(snow_risk)
           t1 == Calculate(snow_risk, sel, "COF",
                           [k \in Rows(snow_risk) |-> COF_value(snow_risk[k])])
       IN  /\ snow_risk' = Calculate(t1, sel, "COF_SAFETY",
                                     [k \in Rows(t1) |-> COF_SAFETY_value(t1[k])])
           /\ selection' = sel
    /\ pc' = "ln_total"
    /\ UNCHANGED <<source, script, status, runs, tieOrder, nullsFirst, lastGood,
                   snow_risk_minor, snow_risk_minor_dissolved, snow_rank, exists,
                   roadway_information, roadway_information_temp>>

total_cof_scores ==
    /\ Running("total_cof_scores")
    /\ LET sel == { k \in Rows(snow_risk) : Ne(snow_risk[k].SNOW_FID, NORTE) }
           t1 == Calculate(snow_risk, sel, "COF",
                           [k \in Rows(snow_risk) |-> COF_value(snow_risk[k])])
       IN  /\ snow_risk' = Calculate(t1, sel, "COF_SAFETY",
                                     [k \in Rows(t1) |-> COF_SAFETY_value(t1[k])])
           /\ selection' = sel
    /\ Goto("ln_total")
    /\ UNCHANGED <<snow_risk_minor, snow_risk_minor_dissolved, snow_rank, exists>>
    /\ CofUnchanged

\* probability(): LN_TOTAL is calculated on the layer as consequence() left
\* it, the selection of total_cof_scores still in place.
LaneTotal ==
    /\ Running("ln_total")
    /\ snow_risk' = Calculate(snow_risk, selection, "LN_TOTAL",
                              [k \in Rows(snow_risk) |-> LN_TOTAL_value(snow_risk[k])])
    /\ Goto("salt_domes")
    /\ UNCHANGED <<selection, snow_risk_minor, snow_risk_minor_dissolved, snow_rank, exists>>
    /\ CofUnchanged

SaltDomes == Score("salt_domes", "probability", "salt_domes", "POF_SALT", "fleet_garages")

FleetGarages == Score("fleet_garages", "probability", "fleet_garages", "POF_FLEET", "lanes")

LaneCounts == Score("lanes", "consequence", "lanes", "POF_LANES", "total_pof_scores")

\* CLEAR_SELECTION, then POF, RISK and RISK_SAFETY on the whole layer, each
\* field reading the ones calculated before it.
\* total_pof_scores with RISK and RISK_SAFETY calculated ahead of POF.
total_pof_scores_risk_first ==
    /\ status = "running" /\ pc = "total_pof_scores"
    /\ LET all == Rows(snow_risk)
           t1 == Calculate(snow_risk, all, "RISK", [k \in all |-> RISK_value(snow_risk[k], "COF")])
           t2 == Calculate(t1, all, "RISK_SAFETY", [k \in all |-> RISK_value(t1[k], "COF_SAFETY")])
       IN  /\ snow_risk' = Calculate(t2, all, "POF", [k \in all |-> POF_value(t2[k])])
           /\ selection' = all
    /\ pc' = "risk_minor"
    /\ UNCHANGED <<source, script, status, runs, tieOrder, nullsFirst, lastGood,
                   snow_risk_minor, snow_risk_minor_dissolved, snow_rank, exists,
                   roadway_information, roadway_information_temp>>

total_pof_scores ==
    /\ Running("total_pof_scores")
    /\ LET all == Rows(snow_risk)
           t1 == Calculate(snow_risk, all, "POF", [k \in all |-> POF_value(snow_risk[k])])
           t2 == Calculate(t1, all, "RISK", [k \in all |-> RISK_value(t1[k], "COF")])
       IN  /\ snow_risk' = Calculate(t2, all, "RISK_SAFETY",
                                     [k \in all |-> RISK_value(t2[k], "COF_SAFETY")])
           /\ selection' = all
    /\ Goto("risk_minor")
    /\ UNCHANGED <<snow_risk_minor, snow_risk_minor_dissolved, snow_rank, exists>>
    /\ CofUnchanged

\* A row of SnowRiskMinor_dissolved.
MinorDissolvedRow(t, sel, k) ==
    LET keys == <<"ROAD_NAME", "SNOW_TYPE", "SNOW_DIST">>
        g == Group(t, sel, keys, k)
    IN  [ ROAD_NAME |-> t[k].ROAD_NAME, SNOW_TYPE |-> t[k].SNOW_TYPE, SNOW_DIST |-> t[k].SNOW_DIST,
          MEAN_COF |-> Mean(t, g, "COF"), MEAN_POF |-> Mean(t, g, "POF"),
          MEAN_RISK |-> Mean(t, g, "RISK") ]

risk_minor ==
    /\ Running("risk_minor")
    /\ LET copied == Copy({ k \in Rows(snow_risk) : In(snow_risk[k].FC, {"6", "7"}) }, snow_risk)
           selection_minor == { k \in Rows(copied) : Ne(copied[k].SNOW_FID, NORTE) }
           t1 == Calculate(copied, selection_minor, "COF",
                           [k \in Rows(copied) |-> COF_minor_value(copied[k])])
           t2 == Calculate(t1, selection_minor, "RISK",
                           [k \in Rows(t1) |-> RISK_minor_value(t1[k])])
           lead == Leaders(t2, selection_minor, <<"ROAD_NAME", "SNOW_TYPE", "SNOW_DIST">>)
       IN  /\ snow_risk_minor' = t2
           /\ snow_risk_minor_dissolved' =
                  Table([i \in 1..Len(lead) |-> MinorDissolvedRow(t2, selection_minor, lead[i])])
    /\ exists' = exists \cup {"SnowRiskMinor", "SnowRiskMinor_dissolved"}
    /\ Goto("risk_rank")
    /\ UNCHANGED <<selection, snow_risk, snow_rank>>
    /\ CofUnchanged

\* A row of SnowRank as Dissolve and AddFields leave it.
RankRow(t, sel, k) ==
    LET g == Group(t, sel, RankKeys, k)
    IN  [ SNOW_DIST |-> t[k].SNOW_DIST, SNOW_TYPE |-> t[k].SNOW_TYPE,
          ROAD_NAME |-> t[k].ROAD_NAME, SNOW_RT_NBR |-> t[k].SNOW_RT_NBR,
          MEAN_COF |-> Mean(t, g, "COF"), MEAN_POF |-> Mean(t, g, "POF"),
          MEAN_RISK |-> Mean(t, g, "RISK"), MEAN_AADT |-> Mean(t, g, "AADT"),
          SNOW_RT_SHORT |-> NULL, SNOW_RT_NAME |-> NULL,
          RANK |-> NULL, RANK_DISTRICT |-> NULL, RANK_ROUTE |-> NULL ]

risk_rank ==
    /\ Running("risk_rank")
    /\ LET all == Rows(snow_risk)
           lead == Leaders(snow_risk, all, RankKeys)
           dissolved == Table([i \in 1..Len(lead) |-> RankRow(snow_risk, all, lead[i])])
           t1 == ranking(dissolved, Rows(dissolved), "RANK")
           t2 == RankDistricts(t1, 1)
           t3 == Calculate(t2, Rows(t2), "SNOW_RT_SHORT",
                           [k \in Rows(t2) |-> SNOW_RT_SHORT_value(t2[k])])
       IN  snow_rank' = Calculate(t3, Rows(t3), "SNOW_RT_NAME", [k \in Rows(t3) |-> route(t3[k])])
    /\ selection' = Rows(snow_risk)
    /\ exists' = exists \cup {"SnowRank"}
    /\ status' = "done"
    /\ pc' = "end"
    /\ UNCHANGED <<source, script, runs, tieOrder, nullsFirst, lastGood, snow_risk,
                   snow_risk_minor, snow_risk_minor_dissolved>>
    /\ CofUnchanged

NextRisk ==
    \/ initialize \/ BusRoutes \/ FunctionalClassifications \/ Slopes \/ AADTAverages
    \/ TroubleSpots \/ CrashData \/ SurfaceMaterials \/ sinuosity \/ Curves
    \/ total_cof_scores \/ LaneTotal \/ SaltDomes \/ FleetGarages \/ LaneCounts
    \/ total_pof_scores \/ risk_minor \/ risk_rank

(***************************************************************************)
(* SnowCOF.py, step by step                                                *)
(***************************************************************************)
\* A row of SnowCOF: the mapped fields of source row k (INVENTORY is its
\* identification) and the score fields, null.
CofRow(k) ==
    LET s == source[k]
    IN  [ INVENTORY |-> k, ROAD_NAME |-> s.ROAD_NAME, FC |-> s.FC, AADT |-> s.AADT,
          SURF_TYP |-> s.SURF_TYP, SNOW_FID |-> s.SNOW_FID, SNOW_DIST |-> s.SNOW_DIST,
          SNOW_TYPE |-> s.SNOW_TYPE, SNOW_RT_NBR |-> s.SNOW_RT_NBR, SNOW_TRBL |-> s.SNOW_TRBL,
          SNOW_SLOPE |-> s.SNOW_SLOPE, SMTD_DAY |-> s.SMTD_DAY, SMTD_NIGHT |-> s.SMTD_NIGHT,
          NUMB1 |-> s.NUMB1,
          COF_SMTD |-> NULL, COF_FC |-> NULL, COF_SLOPE |-> NULL, COF_AADT |-> NULL,
          COF |-> NULL, COF_TRBL |-> NULL, COF_CRASH |-> NULL, COF_SURF |-> NULL,
          COF_AVG |-> NULL ]

RiskUnchanged == UNCHANGED <<snow_risk, snow_risk_minor, snow_risk_minor_dissolved, snow_rank>>

\* SnowCOF does not exist: it is created from all of the source.
LoadCreate ==
    /\ Running("load")
    /\ "SnowCOF" \notin exists
    /\ roadway_information' = Copy(1..Len(source), [k \in 1..Len(source) |-> CofRow(k)])
    /\ exists' = exists \cup {"SnowCOF"}
    /\ Goto("temp")
    /\ UNCHANGED <<selection, roadway_information_temp>>
    /\ RiskUnchanged

\* SnowCOF exists: its rows are deleted and the source rows with
\* SNOW_FID <> 'NORTE' appended.
LoadRefill ==
    /\ Running("load")
    /\ "SnowCOF" \in exists
    /\ roadway_information' = Copy({ k \in 1..Len(source) : Ne(source[k].SNOW_FID, NORTE) },
                                   [k \in 1..Len(source) |-> CofRow(k)])
    /\ Goto("temp")
    /\ UNCHANGED <<selection, roadway_information_temp, exists>>
    /\ RiskUnchanged

\* SnowCOF_temp is created from SnowCOF, or emptied and refilled from it;
\* the layer roadway_information_mem is made over it.
StageTemp ==
    /\ Running("temp")
    /\ roadway_information_temp' = roadway_information
    /\ exists' = exists \cup {"SnowCOF_temp"}
    /\ selection' = Rows(roadway_information)
    /\ Goto("routesCOF")
    /\ UNCHANGED roadway_information
    /\ RiskUnchanged

\* for rule in table: select by the where clause, calculate the field.
ScoreCOF(step, name, field, next) ==
    /\ Running(step)
    /\ roadway_information_temp' = RiskProcessor(roadway_information_temp, "consequence", name, field)
    /\ selection' = LastSelection(roadway_information_temp, "consequence", name)
    /\ Goto(next)
    /\ UNCHANGED <<roadway_information, exists>>
    /\ RiskUnchanged

BusRoutesCOF == ScoreCOF("routesCOF", "routesCOF", "COF_SMTD", "classificationsCOF")

FunctionalClassificationsCOF ==
    ScoreCOF("classificationsCOF", "classificationsCOF", "COF_FC", "slopesCOF")

SlopesCOF == ScoreCOF("slopesCOF", "slopesCOF", "COF_SLOPE", "averagesCOF")

AADTAveragesCOF == ScoreCOF("averagesCOF", "averagesCOF", "COF_AADT", "troublesCOF")

TroubleSpotsCOF == ScoreCOF("troublesCOF", "troublesCOF", "COF_TRBL", "crashesCOF")

CrashDataCOF == ScoreCOF("crashesCOF", "crashesCOF", "COF_CRASH", "materialsCOF")

SurfaceMaterialsCOF == ScoreCOF("materialsCOF", "materialsCOF", "COF_SURF", "total")

\* !COF_SMTD!+!COF_FC!+2*!COF_SLOPE!+!COF_AADT!+!COF_TRBL!+!COF_CRASH!
COF_total_value(r) ==
    IF AnyNull(r, {"COF_SMTD", "COF_FC", "COF_SLOPE", "COF_AADT", "COF_TRBL", "COF_CRASH"})
    THEN NULL
    ELSE Val(r.COF_SMTD[1] + r.COF_FC[1] + 2 * r.COF_SLOPE[1] + r.COF_AADT[1]
             + r.COF_TRBL[1] + r.COF_CRASH[1])

\* round(!COF!/6,0)
COF_AVG_value(r) == IF r.COF = NULL THEN NULL ELSE Val(round(Rat(r.COF[1], 6)))

TotalCOF ==
    /\ Running("total")
    /\ LET t == roadway_information_temp
           sel == { k \in Rows(t) : Ne(t[k].SNOW_FID, NORTE) }
           t1 == Calculate(t, sel, "COF", [k \in Rows(t) |-> COF_total_value(t[k])])
       IN  /\ roadway_information_temp' =
                  Calculate(t1, sel, "COF_AVG", [k \in Rows(t1) |-> COF_AVG_value(t1[k])])
           /\ selection' = sel
    /\ Goto("write")
    /\ UNCHANGED <<roadway_information, exists>>
    /\ RiskUnchanged

\* The write-back with the layer's selection lost: every row is appended.
WriteBackAll ==
    /\ status = "running" /\ pc = "write"
    /\ roadway_information' = roadway_information_temp
    /\ status' = "done"
    /\ pc' = "end"
    /\ UNCHANGED <<source, script, runs, tieOrder, nullsFirst, lastGood, selection,
                   roadway_information_temp, exists, snow_risk, snow_risk_minor,
                   snow_risk_minor_dissolved, snow_rank>>

\* DeleteRows(SnowCOF), then Append of the layer, which hands over the rows
\* of its selection.
WriteBack ==
    /\ Running("write")
    /\ roadway_information' = Copy(selection, roadway_information_temp)
    /\ status' = "done"
    /\ pc' = "end"
    /\ UNCHANGED <<source, script, runs, tieOrder, nullsFirst, lastGood, selection,
                   roadway_information_temp, exists>>
    /\ RiskUnchanged

NextCOF ==
    \/ LoadCreate \/ LoadRefill \/ StageTemp \/ BusRoutesCOF \/ FunctionalClassificationsCOF
    \/ SlopesCOF \/ AADTAveragesCOF \/ TroubleSpotsCOF \/ CrashDataCOF \/ SurfaceMaterialsCOF
    \/ TotalCOF \/ WriteBack

Next == Start \/ Fail \/ NextRisk \/ NextCOF

Spec == Init /\ [][Next]_vars

(***************************************************************************)
(* Inputs for the rule tables and the formulas: one segment, every         *)
(* attribute taken through the values around its rules' boundaries         *)
(***************************************************************************)
Vary(b, field, values) == { [b EXCEPT ![field] = v] : v \in values }

\* The example segment of the specification's testable properties:
\* AADT 3101, FC '3', grade 4.5, trouble code '01', 5 crashes, surface '710'.
Example ==
    [ Base EXCEPT !.AADT = Val(31010), !.FC = Val("3"), !.SNOW_SLOPE = Val(45000),
                  !.SNOW_TRBL = Val("01"), !.NUMB1 = Val(5), !.SURF_TYP = Val(<<7,1,0>>) ]

Variants(b) ==
    { [b EXCEPT !.SMTD_DAY = Val(d), !.SMTD_NIGHT = Val(n)] : d, n \in {"0", "1", "2"} }
    \cup Vary(b, "FC", { Val(c) : c \in {"1", "2", "3", "4", "5", "6", "7"} })
    \cup Vary(b, "SNOW_SLOPE",
              { Val(g) : g \in {-5000, 0, 19990, 19995, 20000, 29990, 29995, 30000,
                                39990, 39995, 40000, 45000} })
    \cup Vary(b, "AADT",
              { Val(a) : a \in {0, 7500, 7505, 7510, 14000, 14005, 14010, 31000, 31005, 31010} })
    \cup Vary(b, "SNOW_TRBL",
              {NULL} \cup { Val(c) : c \in {"01", "02", "03", "04", "05", "06", "07",
                                             "10", "11", "12", "13"} })
    \cup Vary(b, "NUMB1", { Val(c) : c \in 0..5 })
    \cup Vary(b, "SURF_TYP",
              { Val(c) : c \in { <<0,1,0>>, <<3,0,0>>, <<5,0,0>>, <<5,0,1>>, <<6,5,0>>,
                                 <<7,1,0>>, <<8,1,0>>, <<9,0,0>> } })
    \cup { [b EXCEPT !.LNS = l, !.LN_SPC_NBR = Val(n)] :
             l \in {NULL, Val(1), Val(2), Val(3), Val(4)}, n \in {0, 1} }
    \cup { [b EXCEPT !.Shape_Length = Val(g[1]), !.halfChord1 = g[2], !.halfChord2 = g[3],
                     !.endChord = g[4]] :
             g \in { <<100, 50, 50, 100>>, <<103, 50, 50, 90>>, <<107, 50, 50, 80>>,
                     <<150, 50, 50, 0>>, <<2950, 50, 50, 60>>, <<3100, 50, 50, 60>>,
                     <<100, 0, 0, 0>>, <<0, 0, 0, 0>> } }
    \cup { [b EXCEPT !.inSalt = m, !.inFleet = f] :
             m, f \in { {}, {20}, {15, 20}, {5, 10, 15, 20} } }

ClassifyInputs ==
    Variants(Base)
    \cup Variants([Base EXCEPT !.SNOW_FID = Val(NORTE)])
    \cup Vary(Base, "SNOW_FID", {NULL})
    \cup {Example, Arterial, Norte}

InitClassify ==
    /\ source \in { <<s>> : s \in ClassifyInputs }
    /\ InitRest
    /\ tieOrder = Identity
    /\ nullsFirst = FALSE

SpecClassify == InitClassify /\ [][Next]_vars

(***************************************************************************)
(* Inputs for the composite expressions: segments off the sentinel whose   *)
(* attributes take a low and a high value for each consequence table, and  *)
(* three values for each probability table.                                *)
(***************************************************************************)
ConsequenceInputs ==
    { [Base EXCEPT !.SMTD_DAY = Val(b), !.SMTD_NIGHT = Val(b), !.FC = Val(fc),
                   !.SNOW_SLOPE = Val(g), !.AADT = Val(a), !.SNOW_TRBL = Val(t),
                   !.NUMB1 = Val(c), !.SURF_TYP = Val(m), !.Shape_Length = Val(len)] :
        b \in {"0", "2"}, fc \in {"7", "3"}, g \in {10000, 45000}, a \in {5000, 31010},
        t \in {"12", "01"}, c \in {1, 4}, m \in {<<5,0,1>>, <<8,1,0>>}, len \in {100, 150} }

ProbabilityInputs ==
    { [Base EXCEPT !.inSalt = m, !.inFleet = f, !.LNS = Val(l)] :
        m, f \in { {5}, {15}, {5, 10, 15, 20} }, l \in {2, 3, 5} }

ScoreInputs == ConsequenceInputs \cup ProbabilityInputs

InitScores ==
    /\ source \in { <<s>> : s \in ScoreInputs }
    /\ InitRest
    /\ tieOrder = Identity
    /\ nullsFirst = FALSE

SpecScores == InitScores /\ [][Next]_vars

(***************************************************************************)
(* Inputs for the rank fields: rows in a listed district, in a district    *)
(* that risk_rank does not list, and with a route number longer than the   *)
(* three characters of the listed codes.                                   *)
(***************************************************************************)
\* A street in a district outside the list of risk_rank.
Outside == [ Base EXCEPT !.ROAD_NAME = Val("LAKE"), !.SNOW_DIST = Val("D9") ]

\* A street whose route number has a fourth character (the field holds up
\* to 10).
Long == [ Base EXCEPT !.ROAD_NAME = Val("HILL"), !.SNOW_RT_NBR = Val(<<1,0,1,5>>) ]

RankPool == { Base, Arterial, Twin, Outside, Long }

InitRank ==
    /\ source \in [1..NumSegs -> RankPool]
    /\ InitRest
    /\ tieOrder \in IF script = "SnowRisk"
                     THEN { o \in Permutations(1..NumSegs) :
                              \A i \in 1..NumSegs : i > RankGroups(source) => o[i] = i }
                     ELSE {Identity}
    /\ nullsFirst \in IF script = "SnowRisk" /\ RankGroups(source) >= 2 THEN BOOLEAN ELSE {FALSE}

SpecRank == InitRank /\ [][Next]_vars

(***************************************************************************)
(* Inputs for the ranking metric: a street whose consequence is above and  *)
(* whose probability is below that of Base                                 *)
(***************************************************************************)
\* A principal arterial next to the salt dome and the fleet garage.
Near ==
    [ Base EXCEPT !.ROAD_NAME = Val("BAY"), !.FC = Val("3"), !.inSalt = {5}, !.inFleet = {5} ]

MetricPool == { Base, Near, Arterial }

InitMetric ==
    /\ source \in [1..NumSegs -> MetricPool]
    /\ InitRest
    /\ tieOrder \in IF script = "SnowRisk"
                     THEN { o \in Permutations(1..NumSegs) :
                              \A i \in 1..NumSegs : i > RankGroups(source) => o[i] = i }
                     ELSE {Identity}
    /\ nullsFirst \in IF script = "SnowRisk" /\ RankGroups(source) >= 2 THEN BOOLEAN ELSE {FALSE}

SpecMetric == InitMetric /\ [][Next]_vars

(***************************************************************************)
(* Where a run stands                                                      *)
(***************************************************************************)
RiskOrder ==
    <<"initialize", "routes", "classifications", "slopes", "averages", "troubles", "crashes",
      "materials", "sinuosity", "curves", "total_cof_scores", "ln_total", "salt_domes",
      "fleet_garages", "lanes", "total_pof_scores", "risk_minor", "risk_rank", "end">>

CofOrder ==
    <<"load", "temp", "routesCOF", "classificationsCOF", "slopesCOF", "averagesCOF",
      "troublesCOF", "crashesCOF", "materialsCOF", "total", "write", "end">>

Order == IF script = "SnowRisk" THEN RiskOrder ELSE CofOrder

Pos(step) ==
    IF \E i \in 1..Len(Order) : Order[i] = step
    THEN CHOOSE i \in 1..Len(Order) : Order[i] = step
    ELSE 0

\* The step has been executed in the present (or the last) run.
Past(step) == status # "idle" /\ Pos(step) > 0 /\ Pos(pc) > Pos(step)

\* The rule tables applied by attribute selection, each with the step that
\* applies it and the field it calculates.
RiskTables ==
    { <<"routes", "COF_SMTD">>, <<"classifications", "COF_FC">>, <<"slopes", "COF_SLOPE">>,
      <<"averages", "COF_AADT">>, <<"troubles", "COF_TRBL">>, <<"crashes", "COF_CRASH">>,
      <<"materials", "COF_SURF">>, <<"curves", "COF_SINE">>, <<"lanes", "POF_LANES">> }

CofTables ==
    { <<"routesCOF", "COF_SMTD">>, <<"classificationsCOF", "COF_FC">>,
      <<"slopesCOF", "COF_SLOPE">>, <<"averagesCOF", "COF_AADT">>,
      <<"troublesCOF", "COF_TRBL">>, <<"crashesCOF", "COF_CRASH">>,
      <<"materialsCOF", "COF_SURF">> }

AttributeTables == IF script = "SnowRisk" THEN RiskTables ELSE CofTables

\* The table the script is scoring.
Scored == IF script = "SnowRisk" THEN snow_risk ELSE roadway_information_temp

Matches(tbl) == { i \in 1..Len(tbl) : tbl[i][1] }

FirstMatch(tbl) == CHOOSE i \in Matches(tbl) : \A j \in Matches(tbl) : i <= j

LastMatch(tbl) == CHOOSE i \in Matches(tbl) : \A j \in Matches(tbl) : i >= j

IsNorte(r) == Eq(r.SNOW_FID, NORTE)

Crash(r) == IF script = "SnowRisk" THEN r.SNOW_CRASH ELSE r.NUMB1

Suffix(name) == IF script = "SnowRisk" THEN name ELSE name \o "COF"

Composites == {"COF", "COF_SAFETY", "POF", "RISK", "RISK_SAFETY"}

(***************************************************************************)
(* Properties                                                              *)
(***************************************************************************)

\* C1: a run that failed after it started leaves every persisted output
\* exactly as the previous successful run wrote it.
C1_FailedRunKeepsPreviousOutput ==
    (status = "failed" /\ lastGood.valid) => Outputs = lastGood.out

\* C2: a run that completes after an earlier completed run on the same
\* source leaves the same outputs (rows, composite scores, ranks) as that
\* earlier run, also when the earlier run created SnowCOF and this one
\* refilled it.
C2_SecondRunSameOutput ==
    (status = "done" /\ lastGood.valid) => Outputs = lastGood.out

\* SnowCOF was created by the first run from a source with a sentinel
\* segment, and the second run has refilled it and completed.
C2_Witness ==
    /\ script = "SnowCOF" /\ status = "done" /\ runs = 2 /\ lastGood.valid
    /\ \E k \in 1..Len(source) : IsNorte(source[k])
    /\ Len(roadway_information) > 0

C4_NorteAllZero ==
    \A k \in Rows(Scored) :
        IsNorte(Scored[k]) =>
            /\ (script = "SnowRisk" /\ Past("lanes")) =>
                   \A f \in {"COF_SMTD", "COF_FC", "COF_SLOPE", "COF_AADT", "COF_TRBL", "COF_CRASH",
                             "COF_SURF", "COF_SINE", "POF_SALT", "POF_FLEET", "POF_LANES"} :
                       Scored[k][f] = Val(0)
            /\ (script = "SnowCOF" /\ Past("materialsCOF")) =>
                   \A f \in {"COF_SMTD", "COF_FC", "COF_SLOPE", "COF_AADT", "COF_TRBL", "COF_CRASH",
                             "COF_SURF"} :
                       Scored[k][f] = Val(0)

\* The composites of the sentinel rows of SnowRisk and SnowRiskMinor are
\* unset, and the output SnowCOF of a completed run holds no sentinel row.
NorteCompositesUnset ==
    /\ \A k \in Rows(snow_risk) :
           IsNorte(snow_risk[k]) => \A f \in Composites : snow_risk[k][f] = NULL
    /\ \A k \in Rows(snow_risk_minor) :
           IsNorte(snow_risk_minor[k]) => \A f \in Composites : snow_risk_minor[k][f] = NULL
    /\ (script = "SnowCOF" /\ status = "done") =>
           \A k \in Rows(roadway_information) : ~IsNorte(roadway_information[k])

\* C5 as stated: every step that calculates a composite (total_cof_scores,
\* total_pof_scores, SnowCOF's total) calculates it on rows with
\* SNOW_FID <> 'NORTE' only, and the composites of a sentinel row stay unset.
C5_CompositeStepsSkipNorte ==
    /\ (status \in {"running", "failed"} /\ pc \in {"ln_total", "risk_minor", "write"}) =>
           \A k \in selection : Ne(Scored[k].SNOW_FID, NORTE)
    /\ NorteCompositesUnset

\* C5 amended: total_cof_scores and SnowCOF's total calculate on rows with
\* SNOW_FID <> 'NORTE' only; total_pof_scores calculates POF, RISK and
\* RISK_SAFETY on every row, and still the composites of a sentinel row stay
\* unset.
C5_NorteCompositesStayUnset ==
    /\ (status \in {"running", "failed"} /\ pc \in {"ln_total", "write"}) =>
           \A k \in selection : Ne(Scored[k].SNOW_FID, NORTE)
    /\ (status \in {"running", "failed"} /\ pc = "risk_minor") =>
           selection = Rows(snow_risk)
    /\ NorteCompositesUnset

\* total_pof_scores has calculated over a sentinel row whose lane score is
\* set, and the run has completed.
C5_Witness ==
    /\ script = "SnowRisk" /\ status = "done"
    /\ \E k \in Rows(snow_risk) :
           IsNorte(snow_risk[k]) /\ snow_risk[k].POF_LANES # NULL /\ k \in selection

\* C6: no row of SnowRank is built from a sentinel segment, so no rank
\* field is assigned to such a row.
C6_NorteNotRanked ==
    (script = "SnowRisk" /\ status = "done") =>
        \A i \in Rows(snow_rank) : \A k \in Rows(snow_risk) :
            IsNorte(snow_risk[k]) => KeyOf(snow_risk[k], RankKeys) # KeyOf(snow_rank[i], RankKeys)

\* C7: whenever a rule table has been applied, every row (with a route
\* identifier) satisfies exactly one rule of it.
C7_ExactlyOneRule ==
    \A tf \in AttributeTables : \A k \in Rows(Scored) :
        (Past(tf[1]) /\ Scored[k].SNOW_FID # NULL)
            => Cardinality(Matches(RuleTable(tf[1], Scored[k]))) = 1

\* C8: after the AADT table has been applied, a row off the sentinel with
\* AADT >= 0 has COF_AADT 1 on [0,750], 2 on (750,1400], 3 on (1400,3100]
\* and 4 above 3100 (AADT in tenths).
C8_AADTBuckets ==
    \A k \in Rows(Scored) :
        (Past(Suffix("averages")) /\ Ne(Scored[k].SNOW_FID, NORTE) /\ Ge(Scored[k].AADT, 0))
            => Scored[k].COF_AADT =
                   Val(IF Scored[k].AADT[1] <= 7500 THEN 1
                       ELSE IF Scored[k].AADT[1] <= 14000 THEN 2
                       ELSE IF Scored[k].AADT[1] <= 31000 THEN 3
                       ELSE 4)

\* C9: the example segment (AADT 3101, FC '3', grade 4.5, trouble code
\* '01', 5 crashes, surface '710', off the sentinel) is classified with
\* COF_AADT, COF_FC, COF_SLOPE, COF_TRBL, COF_CRASH and COF_SURF all 4.
C9_ExampleSegment ==
    \A k \in Rows(Scored) :
        LET r == Scored[k]
        IN  ( /\ Past(Suffix("materials"))
              /\ Ne(r.SNOW_FID, NORTE) /\ Eq(r.AADT, 31010) /\ Eq(r.FC, "3")
              /\ Eq(r.SNOW_SLOPE, 45000) /\ Eq(r.SNOW_TRBL, "01") /\ Eq(Crash(r), 5)
              /\ Eq(r.SURF_TYP, <<7,1,0>>) )
            => \A f \in {"COF_AADT", "COF_FC", "COF_SLOPE", "COF_TRBL", "COF_CRASH", "COF_SURF"} :
                   r[f] = Val(4)

AllFour(r, fields) == \A f \in fields : r[f] = Val(4)

\* A calculated composite is at most top and is top when every
\* contributing sub-score is 4.
Scaled(r, field, fields, top) ==
    /\ r[field] # NULL => r[field][1] <= top
    /\ AllFour(r, fields) => r[field] = Val(top)

\* C10: every composite is at most 4 and is exactly 4.0 when every
\* contributing sub-score is 4 (COF, COF_SAFETY and POF in tenths, the
\* minor-road COF in hundredths, COF_AVG in units).
C10_CompositesScaledTo4 ==
    /\ (script = "SnowRisk" /\ Past("total_cof_scores")) =>
           \A k \in Rows(snow_risk) :
               Ne(snow_risk[k].SNOW_FID, NORTE) =>
                   /\ Scaled(snow_risk[k], "COF", Fields(social_factor), 40)
                   /\ Scaled(snow_risk[k], "COF_SAFETY", Fields(safety_factor), 40)
    /\ (script = "SnowRisk" /\ Past("total_pof_scores")) =>
           \A k \in Rows(snow_risk) :
               Ne(snow_risk[k].SNOW_FID, NORTE) =>
                   Scaled(snow_risk[k], "POF", {"POF_SALT", "POF_FLEET", "POF_LANES"}, 40)
    /\ (script = "SnowRisk" /\ Past("risk_minor")) =>
           \A k \in Rows(snow_risk_minor) :
               Ne(snow_risk_minor[k].SNOW_FID, NORTE) =>
                   Scaled(snow_risk_minor[k], "COF", Fields(social_factor_minor), 400)
    /\ (script = "SnowCOF" /\ Past("total")) =>
           \A k \in Rows(roadway_information_temp) :
               Ne(roadway_information_temp[k].SNOW_FID, NORTE) =>
                   Scaled(roadway_information_temp[k], "COF_AVG",
                          {"COF_SMTD", "COF_FC", "COF_SLOPE", "COF_AADT", "COF_TRBL", "COF_CRASH"}, 4)

\* Rounding to the nearest integer with a tie going away from zero, for
\* a[1] >= 0 and a[2] > 0.
RoundAway(a) == (a[1] \div a[2]) + (IF 2 * (a[1] % a[2]) >= a[2] THEN 1 ELSE 0)

\* C11: every stored composite is its exact scaled value rounded to the
\* nearest step with a tie going away from zero: COF, COF_SAFETY, POF, RISK
\* (tenths) in SnowRisk and COF_AVG (units) in SnowCOF.
C11_RoundHalfAway ==
    /\ (script = "SnowRisk" /\ Past("total_cof_scores")) =>
           \A k \in Rows(snow_risk) :
               LET r == snow_risk[k]
               IN  /\ r.COF # NULL => r.COF = Val(RoundAway(RMul(cof(r), RInt(10))))
                   /\ r.COF_SAFETY # NULL =>
                          r.COF_SAFETY = Val(RoundAway(RMul(cof_safety(r), RInt(10))))
    /\ (script = "SnowRisk" /\ Past("total_pof_scores")) =>
           \A k \in Rows(snow_risk) :
               LET r == snow_risk[k]
               IN  /\ r.POF # NULL => r.POF = Val(RoundAway(RMul(pof(r), RInt(10))))
                   /\ r.RISK # NULL =>
                          r.RISK = Val(RoundAway(RMul(RMul(Rat(r.COF[1], 10), Rat(r.POF[1], 10)),
                                                      RInt(10))))
    /\ (script = "SnowCOF" /\ Past("total")) =>
           \A k \in Rows(roadway_information_temp) :
               LET r == roadway_information_temp[k]
               IN  r.COF_AVG # NULL => r.COF_AVG = Val(RoundAway(Rat(r.COF[1], 6)))

RECURSIVE GCD(_, _)
GCD(m, n) == IF n = 0 THEN m ELSE GCD(n, m % n)

\* The rational a in lowest terms (a[1] >= 0, a[2] > 0).
Reduce(a) == LET g == GCD(a[1], a[2]) IN <<a[1] \div g, a[2] \div g>>

\* The exact product of two rationals.
Product(a, b) == RMul(Reduce(a), Reduce(b))

\* C12: RISK and RISK_SAFETY are the one rounding of the product of the
\* unrounded COF (COF_SAFETY) and the unrounded POF, and the minor-road
\* RISK the one rounding of the unrounded minor-road COF times the
\* unrounded POF.
C12_RoundedOnce ==
    /\ (script = "SnowRisk" /\ Past("total_pof_scores")) =>
           \A k \in Rows(snow_risk) :
               LET r == snow_risk[k]
               IN  /\ r.RISK # NULL => r.RISK = Val(Round1(Product(cof(r), pof(r))))
                   /\ r.RISK_SAFETY # NULL =>
                          r.RISK_SAFETY = Val(Round1(Product(cof_safety(r), pof(r))))
    /\ (script = "SnowRisk" /\ Past("risk_minor")) =>
           \A k \in Rows(snow_risk_minor) :
               LET r == snow_risk_minor[k]
               IN  r.RISK # NULL => r.RISK = Val(Round2(Product(cof_minor(r), pof(r))))

\* The row r with sub-score f set to v.
Bump(r, f, v) == [r EXCEPT ![f] = Val(v)]

\* The composites of SnowRisk calculated afresh from the sub-scores of r.
Rescored(r) ==
    LET c == [r EXCEPT !.COF = COF_value(r), !.COF_SAFETY = COF_SAFETY_value(r),
                       !.POF = POF_value(r)]
    IN  [c EXCEPT !.RISK = RISK_value(c, "COF"), !.RISK_SAFETY = RISK_value(c, "COF_SAFETY")]

\* COF and COF_AVG of SnowCOF calculated afresh from the sub-scores of r.
RescoredCOF(r) ==
    LET c == [r EXCEPT !.COF = COF_total_value(r)] IN [c EXCEPT !.COF_AVG = COF_AVG_value(c)]

\* The minor-road COF calculated afresh from the sub-scores of r.
RescoredMinor(r) == [r EXCEPT !.COF = COF_minor_value(r)]

\* Raising sub-score f of r to v does not lower the stored composite, and
\* lowering it does not raise the composite; m is the rescored changed row.
Ordered(r, f, v, m, composite) ==
    /\ v > r[f][1] => m[composite][1] >= r[composite][1]
    /\ v < r[f][1] => m[composite][1] <= r[composite][1]

SubScores == Fields(social_factor) \cup {"POF_SALT", "POF_FLEET", "POF_LANES"}

\* C13: for every scored row and every sub-score changed alone to another
\* value of 0..4, each composite calculated from the changed row is ordered
\* against the stored composite as the sub-score is: COF, COF_SAFETY, POF,
\* RISK, RISK_SAFETY, the minor-road COF and COF_AVG of SnowCOF.
C13_Monotonic ==
    /\ (script = "SnowRisk" /\ Past("total_pof_scores")) =>
           \A k \in Rows(snow_risk) : \A f \in SubScores : \A v \in 0..4 :
               LET r == snow_risk[k]
                   m == Rescored(Bump(r, f, v))
               IN  (r.RISK # NULL /\ r.RISK_SAFETY # NULL) =>
                       \A c \in Composites : Ordered(r, f, v, m, c)
    /\ (script = "SnowRisk" /\ Past("risk_minor")) =>
           \A k \in Rows(snow_risk_minor) : \A f \in Fields(social_factor_minor) : \A v \in 0..4 :
               LET r == snow_risk_minor[k]
               IN  r.COF # NULL => Ordered(r, f, v, RescoredMinor(Bump(r, f, v)), "COF")
    /\ (script = "SnowCOF" /\ Past("total")) =>
           \A k \in Rows(roadway_information_temp) :
               \A f \in {"COF_SMTD", "COF_FC", "COF_SLOPE", "COF_AADT", "COF_TRBL", "COF_CRASH"} :
                   \A v \in 0..4 :
                       LET r == roadway_information_temp[k]
                       IN  r.COF_AVG # NULL =>
                               Ordered(r, f, v, RescoredCOF(Bump(r, f, v)), "COF_AVG")

\* A run has completed with a scored row whose POF goes up when its
\* lane-count score is raised by one, and with a row of SnowRiskMinor whose
\* COF is calculated.
C13_Witness ==
    /\ script = "SnowRisk" /\ status = "done"
    /\ \E k \in Rows(snow_risk) :
           LET r == snow_risk[k]
           IN  /\ r.RISK # NULL /\ r.POF_LANES[1] < 4
               /\ Rescored(Bump(r, "POF_LANES", r.POF_LANES[1] + 1)).POF[1] > r.POF[1]
    /\ \E k \in Rows(snow_risk_minor) : snow_risk_minor[k].COF # NULL

\* Row i of SnowRank has a larger MEAN_COF than row j.
Larger(i, j) ==
    /\ snow_rank[i].MEAN_COF # NULL /\ snow_rank[j].MEAN_COF # NULL
    /\ RLess(snow_rank[j].MEAN_COF[1], snow_rank[i].MEAN_COF[1])

\* Rows i and j of SnowRank have the same (non-null) MEAN_COF.
Tied(i, j) ==
    /\ snow_rank[i].MEAN_COF # NULL /\ snow_rank[j].MEAN_COF # NULL
    /\ REq(snow_rank[i].MEAN_COF[1], snow_rank[j].MEAN_COF[1])

\* The values of field over the rows S of SnowRank are 1..n, each once, and
\* a row with a larger MEAN_COF has the smaller number.
Dense(S, field) ==
    /\ { snow_rank[i][field] : i \in S } = { Val(n) : n \in 1..Cardinality(S) }
    /\ \A i, j \in S : i # j => snow_rank[i][field] # snow_rank[j][field]
    /\ \A i, j \in S : Larger(i, j) => snow_rank[i][field][1] < snow_rank[j][field][1]

\* C14: when risk_rank has completed, the RANK values of the N rows of
\* SnowRank are exactly 1..N, each once, also when rows tie on the metric
\* (MEAN_COF), and a row with a strictly larger metric has a strictly
\* smaller RANK.
C14_RanksDense ==
    (script = "SnowRisk" /\ status = "done") => Dense(Rows(snow_rank), "RANK")

\* risk_rank has ranked a SnowRank of at least two rows, two of them tied
\* on the metric.
C14_Witness ==
    /\ script = "SnowRisk" /\ status = "done" /\ Len(snow_rank) >= 2
    /\ \E i, j \in Rows(snow_rank) : i # j /\ Tied(i, j)

\* C15: when risk_rank has completed, two rows of SnowRank tied on the
\* metric have their RANK in the order of the rows in the table, and the
\* same for RANK_DISTRICT and RANK_ROUTE where both rows have one.
C15_StableTies ==
    (script = "SnowRisk" /\ status = "done") =>
        \A i, j \in Rows(snow_rank) :
            (i < j /\ Tied(i, j)) =>
                \A f \in {"RANK", "RANK_DISTRICT", "RANK_ROUTE"} :
                    (snow_rank[i][f] # NULL /\ snow_rank[j][f] # NULL
                     /\ (f = "RANK_DISTRICT" => snow_rank[i].SNOW_DIST = snow_rank[j].SNOW_DIST)
                     /\ (f = "RANK_ROUTE" => snow_rank[i].SNOW_RT_NBR = snow_rank[j].SNOW_RT_NBR))
                        => snow_rank[i][f][1] < snow_rank[j][f][1]

Listed(d) == \E i \in 1..Len(districts) : d = Val(districts[i])

\* C16: when risk_rank has completed, for each listed district the
\* RANK_DISTRICT values of the rows of that district are exactly 1..n in
\* metric-descending order (a district without rows gets none), and a row
\* whose district is not listed has no RANK_DISTRICT and has its RANK.
C16_DistrictRanks ==
    (script = "SnowRisk" /\ status = "done") =>
        /\ \A d \in 1..Len(districts) :
               Dense({ i \in Rows(snow_rank) : Eq(snow_rank[i].SNOW_DIST, districts[d]) },
                     "RANK_DISTRICT")
        /\ \A i \in Rows(snow_rank) :
               ~Listed(snow_rank[i].SNOW_DIST) =>
                   snow_rank[i].RANK_DISTRICT = NULL /\ snow_rank[i].RANK # NULL

\* risk_rank has completed on a SnowRank with a row of an unlisted
\* district next to a row of a listed one.
C16_Outside ==
    /\ script = "SnowRisk" /\ status = "done"
    /\ \E i, j \in Rows(snow_rank) :
           ~Listed(snow_rank[i].SNOW_DIST) /\ Listed(snow_rank[j].SNOW_DIST)

\* The text x starts with the three characters of code.
StartsWith(x, code) == x # NULL /\ Len(x[1]) >= 3 /\ SubSeq(x[1], 1, 3) = code

\* C17: when risk_rank has completed, every row of SnowRank whose
\* SNOW_RT_NBR starts with a listed three-digit code has a RANK_ROUTE, and
\* for each code the RANK_ROUTE values of its rows are exactly 1..n in
\* metric-descending order.
C17_RouteRanks ==
    (script = "SnowRisk" /\ status = "done") =>
        \A c \in 1..Len(subdistricts) :
            LET S == { i \in Rows(snow_rank) : StartsWith(snow_rank[i].SNOW_RT_NBR, subdistricts[c]) }
            IN  /\ \A i \in S : snow_rank[i].RANK_ROUTE # NULL
                /\ Dense(S, "RANK_ROUTE")

\* The run is at a step after initialize and not after the given step.
UpTo(step) == status = "running" /\ Pos(pc) > Pos("initialize") /\ Pos(pc) <= Pos(step)

\* C18: in a run of SnowRisk no composite is calculated before the
\* sub-scores it reads: until total_cof_scores has run no row has a COF or
\* COF_SAFETY, until total_pof_scores has run none has a POF, RISK or
\* RISK_SAFETY; from then on each composite is the value of its expression
\* on the row's sub-scores as they now are (none was classified later), the
\* minor-road RISK is calculated from the POF of total_pof_scores, and the
\* MEAN_COF that ranks a row of SnowRank is the mean of the calculated COF
\* of its segments.
C18_StagesInOrder ==
    script = "SnowRisk" =>
        /\ UpTo("total_cof_scores") =>
               \A k \in Rows(snow_risk) : \A c \in Composites : snow_risk[k][c] = NULL
        /\ UpTo("total_pof_scores") =>
               \A k \in Rows(snow_risk) :
                   \A c \in {"POF", "RISK", "RISK_SAFETY"} : snow_risk[k][c] = NULL
        /\ Past("total_cof_scores") =>
               \A k \in Rows(snow_risk) :
                   LET r == snow_risk[k]
                   IN  Ne(r.SNOW_FID, NORTE) =>
                           r.COF = COF_value(r) /\ r.COF_SAFETY = COF_SAFETY_value(r)
        /\ Past("total_pof_scores") =>
               \A k \in Rows(snow_risk) :
                   LET r == snow_risk[k]
                   IN  /\ r.POF = POF_value(r)
                       /\ r.RISK = RISK_value(r, "COF")
                       /\ r.RISK_SAFETY = RISK_value(r, "COF_SAFETY")
        /\ Past("risk_minor") =>
               \A k \in Rows(snow_risk_minor) :
                   LET r == snow_risk_minor[k]
                   IN  Ne(r.SNOW_FID, NORTE) =>
                           r.POF = POF_value(r) /\ r.RISK = RISK_minor_value(r)
        /\ status = "done" =>
               \A i \in Rows(snow_rank) :
                   snow_rank[i].MEAN_COF =
                       Mean(snow_risk,
                            { k \in Rows(snow_risk) :
                                KeyOf(snow_risk[k], RankKeys) = KeyOf(snow_rank[i], RankKeys) },
                            "COF")

\* A second run has completed with a segment whose RISK is calculated and a
\* row of SnowRank ranked on its MEAN_COF.
C18_Witness ==
    /\ script = "SnowRisk" /\ status = "done" /\ runs = 2
    /\ \E k \in Rows(snow_risk) : snow_risk[k].RISK # NULL /\ snow_risk[k].COF_SINE # NULL
    /\ \E i \in Rows(snow_rank) : snow_rank[i].MEAN_COF # NULL /\ snow_rank[i].RANK # NULL

\* C19: a segment whose LN_TOTAL is null is given no POF_LANES, and no run of
\* SnowRisk completes with a segment whose LN_TOTAL, or (off the sentinel)
\* whose SNOW_TRBL, is null: the run fails instead.
C19_NullAttributeFailsRun ==
    script = "SnowRisk" =>
        \A k \in Rows(snow_risk) :
            LET r == snow_risk[k]
            IN  /\ r.LN_TOTAL = NULL => r.POF_LANES = NULL
                /\ status = "done" =>
                       /\ r.LN_TOTAL # NULL
                       /\ Ne(r.SNOW_FID, NORTE) => r.SNOW_TRBL # NULL

\* C20: once sinuosity has run, a segment of non-zero length whose first and
\* last points differ has as SINUOSITY its length divided by the distance
\* between first and last point.
C20_EndpointDistance ==
    (script = "SnowRisk" /\ Past("sinuosity")) =>
        \A k \in Rows(snow_risk) :
            LET r == snow_risk[k]
            IN  (Gt(r.Shape_Length, 0) /\ r.endChord > 0) =>
                    /\ r.SINUOSITY # NULL
                    /\ REq(r.SINUOSITY[1], Rat(r.Shape_Length[1], r.endChord))

\* The score of the shortest of the travel times in S: 5 gives 1, 10 gives
\* 2, 15 gives 3, 20 gives 4.
Shortest(S) == (CHOOSE m \in S : \A n \in S : m <= n) \div 5

\* C21: once the salt dome and fleet garage tables have been applied, every
\* segment off the sentinel whose centre lies in at least one travel-time
\* region has as POF_SALT (as POF_FLEET) the score of the shortest region
\* holding the centre.
C21_ShortestRegion ==
    (script = "SnowRisk" /\ Past("fleet_garages")) =>
        \A k \in Rows(snow_risk) :
            LET r == snow_risk[k]
            IN  Ne(r.SNOW_FID, NORTE) =>
                    /\ r.inSalt # {} => r.POF_SALT = Val(Shortest(r.inSalt))
                    /\ r.inFleet # {} => r.POF_FLEET = Val(Shortest(r.inFleet))

\* Rows i and j of SnowRank are ranked together in the rank field.
RankedTogether(i, j, field) ==
    /\ snow_rank[i][field] # NULL /\ snow_rank[j][field] # NULL
    /\ field = "RANK_DISTRICT" => snow_rank[i].SNOW_DIST = snow_rank[j].SNOW_DIST
    /\ field = "RANK_ROUTE" => snow_rank[i].SNOW_RT_NBR = snow_rank[j].SNOW_RT_NBR

\* C22: when risk_rank has completed, of two rows of SnowRank ranked
\* together in RANK, RANK_DISTRICT or RANK_ROUTE the one with the strictly
\* larger MEAN_RISK does not have the larger number.
C22_RankedByRisk ==
    (script = "SnowRisk" /\ status = "done") =>
        \A field \in {"RANK", "RANK_DISTRICT", "RANK_ROUTE"} :
            \A i, j \in Rows(snow_rank) :
                ( /\ RankedTogether(i, j, field)
                  /\ snow_rank[i].MEAN_RISK # NULL /\ snow_rank[j].MEAN_RISK # NULL
                  /\ RLess(snow_rank[j].MEAN_RISK[1], snow_rank[i].MEAN_RISK[1]) )
                    => snow_rank[i][field][1] <= snow_rank[j][field][1]

\* C23: when consequence() has ended, every segment with Shape_Length > 0
\* has a COF_SINE in 1..4, and one whose SINUOSITY is above 29 (the value 30
\* set where the expression gave none included) has COF_SINE 4.
C23_SinuosityClassified ==
    (script = "SnowRisk" /\ Past("total_cof_scores")) =>
        \A k \in Rows(snow_risk) :
            LET r == snow_risk[k]
            IN  Gt(r.Shape_Length, 0) =>
                    /\ r.COF_SINE \in { Val(n) : n \in 1..4 }
                    /\ RatGt(r.SINUOSITY, RInt(29)) => r.COF_SINE = Val(4)

====
